---- MODULE Spec2Model ----
(***************************************************************************)
(* djangbone/views.py: BackboneAPIView, ModelAPIView, CustomModelAPIView.  *)
(*                                                                         *)
(* One request is handled at a time by a fresh view instance: dispatch     *)
(* resolves the effective verb, picks a handler, the handler talks to the  *)
(* data source (base_queryset), the Authorizer (user_has_perm), the Form   *)
(* and the logger, and ends either with an HttpResponse or by raising.     *)
(***************************************************************************)
EXTENDS Integers, Sequences, FiniteSets, TLC

(* ---- bounds ----------------------------------------------------------- *)
\* identifiers the data source can hold or assign
MaxId == 3
\* largest page number a request asks for
MaxPage == 3
\* largest page_size a view is configured with
MaxPageSize == 2

(* ---- values ----------------------------------------------------------- *)
Ids == 1..MaxId
\* values of the one data field ("name") of a Record
Vals == {"a", "b"}
\* marks an identifier with no record in the data source
NoRecord == "<absent>"
AllFields == {"id", "name"}

\* Python values that flow through `if data:` are tagged with their type
PyNone == [t |-> "None"]
PyDict(d) == [t |-> "dict", v |-> d]
PyList(l) == [t |-> "list", v |-> l]
EmptyDict == [f \in {} |-> "x"]

\* Python truthiness of None, dict and list
Truthy(p) ==
    CASE p.t = "None" -> FALSE
      [] p.t = "dict" -> DOMAIN p.v # {}
      [] p.t = "list" -> Len(p.v) > 0

(* ---- responses -------------------------------------------------------- *)
Text(s) == [k |-> "text", s |-> s]
\* json_encoder.encode(x): the JSON text of x
Encode(x) == [k |-> "json", of |-> x]
\* "<textarea status='%d'>%s</textarea>" % (status, errors)
Textarea(status, inner) == [k |-> "textarea", status |-> status, inner |-> inner]

\* django.http.HttpResponse default content type
DefaultMimetype == "text/html"
HttpResponse(body, status, mimetype) ==
    [kind |-> "response", status |-> status, mimetype |-> mimetype, body |-> body]
\* the handler ends by raising exc to its caller
Raise(exc) == [kind |-> "raise", exc |-> exc]

(* ---- Python helpers ---------------------------------------------------- *)
\* an optional value: a missing dict key, a missing GET parameter
\* (v is a filler of the type of the values the key holds)
Absent(filler) == [has |-> FALSE, v |-> filler]
Present(x) == [has |-> TRUE, v |-> x]
\* dict.get(key, default)
DictGet(o, default) == IF o.has THEN o.v ELSE default

\* str.lower() on the verbs a request can carry
Lower(s) ==
    CASE s \in {"GET", "Get", "get"}          -> "get"
      [] s \in {"POST", "Post", "post"}       -> "post"
      [] s \in {"PUT", "Put", "put"}          -> "put"
      [] s \in {"DELETE", "Delete", "delete"} -> "delete"
      [] s \in {"HEAD", "head"}               -> "head"
      [] s \in {"PATCH", "patch"}             -> "patch"
      [] OTHER                                -> s

\* str.find(sub) != -1 on the content types a request can carry
Contains(s, sub) ==
    CASE sub = "application/x-www-form-urlencoded" ->
             s \in {"application/x-www-form-urlencoded",
                    "application/x-www-form-urlencoded; charset=UTF-8"}
      [] sub = "multipart/form-data" ->
             s \in {"multipart/form-data", "multipart/form-data; boundary=x"}
      [] OTHER -> s = sub

Digits == <<"0", "1", "2", "3", "4", "5", "6", "7", "8", "9">>
DigitSet == {Digits[i] : i \in 1..10}
DigitVal(c) == (CHOOSE i \in 1..10 : Digits[i] = c) - 1
IsDigits(s) == Len(s) > 0 /\ \A i \in 1..Len(s) : s[i] \in DigitSet

RECURSIVE DigitsVal(_)
DigitsVal(s) ==
    IF Len(s) = 0 THEN 0
    ELSE 10 * DigitsVal(SubSeq(s, 1, Len(s) - 1)) + DigitVal(s[Len(s)])

\* int(s) for a string s (a sequence of characters); ok = FALSE is ValueError
PyInt(s) ==
    IF IsDigits(s) THEN [ok |-> TRUE, n |-> DigitsVal(s)]
    ELSE IF Len(s) > 1 /\ s[1] \in {"-", "+"} /\ IsDigits(Tail(s))
         THEN [ok |-> TRUE,
               n |-> IF s[1] = "-" THEN 0 - DigitsVal(Tail(s)) ELSE DigitsVal(Tail(s))]
         ELSE [ok |-> FALSE, n |-> 0]

RECURSIVE NatStr(_)
NatStr(n) == IF n < 10 THEN <<Digits[n + 1]>> ELSE NatStr(n \div 10) \o <<Digits[(n % 10) + 1]>>
\* the decimal text of an integer, as a client writes it in the query string
IntStr(n) == IF n < 0 THEN <<"-">> \o NatStr(0 - n) ELSE NatStr(n)

\* Python slice s[lo:hi] for 0 <= lo <= hi
Slice(s, lo, hi) ==
    LET a == IF lo > Len(s) THEN Len(s) ELSE lo
        b == IF hi > Len(s) THEN Len(s) ELSE hi
    IN  SubSeq(s, a + 1, b)

(* ---- requests and configuration --------------------------------------- *)
Methods == {"GET", "POST", "PUT", "DELETE", "HEAD"}
OverrideVals == {"PUT", "put", "Delete", "GET", "PATCH"}
ContentTypes == {"application/json",
                 "application/x-www-form-urlencoded; charset=UTF-8",
                 "multipart/form-data; boundary=x"}
\* the page parameter texts a client sends: integers and non-numeric text
PageTexts == {IntStr(n) : n \in (0 - 1)..MaxPage} \cup {<<"x">>, <<>>}

\* the url kwargs: the identifier captured from the path, when there is one
NoId == [has_id |-> FALSE, id |-> 0]
WithId(i) == [has_id |-> TRUE, id |-> i]

\* The fields of a request the view reads.  json_ok: raw_post_data decodes
\* as JSON; name: the value of the data field in the decoded body or in the
\* parsed POST fields; allow: the Authorizer's answer if it is consulted.
Request(verb, kwargs, body, page, allow) ==
    [method |-> verb[1], POST_method |-> verb[2], kwargs |-> kwargs,
     CONTENT_TYPE |-> body[1], json_ok |-> body[2], name |-> body[3],
     GET_p |-> page, allow |-> allow]

\* transport method and _method field; an override on a transport method
\* other than POST: one case is enough
Verbs ==
    {<<m, Absent("")>> : m \in Methods}
        \cup {<<"POST", Present(v)>> : v \in OverrideVals}
        \cup {<<"GET", Present("PUT")>>}

\* content type, json_ok and data field.  A form-encoded body is not a JSON
\* text, an undecodable body has no fields, and for a request without a
\* content type header one body is enough.
Bodies ==
    {<<Present(c), FALSE, v>> : c \in ContentTypes \ {"application/json"},
                                v \in Vals \cup {""}}
        \cup {<<Present("application/json"), TRUE, v>> : v \in Vals \cup {""}}
        \cup {<<Present("application/json"), FALSE, "">>, <<Absent(""), TRUE, "a">>}

Kwargs == {NoId} \cup {WithId(i) : i \in Ids}

\* requests without a page parameter
Requests ==
    {Request(verb, k, b, Absent(<<>>), a) :
        verb \in Verbs, k \in Kwargs, b \in Bodies, a \in BOOLEAN}
\* collection reads, with and without a page parameter
PageRequests ==
    {Request(<<"GET", Absent("")>>, NoId, <<Absent(""), TRUE, "a">>, page, a) :
        page \in {Absent(<<>>)} \cup {Present(t) : t \in PageTexts}, a \in BOOLEAN}

NoPageSize == Absent(0)
Views == {"ModelAPIView", "CustomModelAPIView"}
\* serialize_fields: {} stands for None (all fields)
FieldSets == {{}, {"name"}, {"id", "name"}}

(* ---- data source ------------------------------------------------------- *)
RECURSIVE Ascending(_)
\* the elements of a set of identifiers in ascending order
Ascending(S) ==
    IF S = {} THEN <<>>
    ELSE LET m == CHOOSE x \in S : \A y \in S : x <= y
         IN  <<m>> \o Ascending(S \ {m})

\* base_queryset: every record of the collection, in identifier order
base_queryset(d) == Ascending({i \in Ids : d[i] # NoRecord})
\* base_queryset.filter(id=id): the records with that identifier
filter(d, id) == IF id \in Ids /\ d[id] # NoRecord THEN <<id>> ELSE <<>>

\* Form.is_valid(): the Form collaborator requires the data field
is_valid(data) == data # ""
\* form.errors of a Form that is not valid
form_errors == PyDict([name |-> "This field is required."])
\* utils.logging.get_data_diff(qs, data): the fields data changes, old -> new
get_data_diff(d, qs, data) ==
    IF Len(qs) > 0 /\ d[qs[1]] # data THEN PyDict([name |-> <<d[qs[1]], data>>])
    ELSE PyDict(EmptyDict)

(* ---- events a handler leaves behind ----------------------------------- *)
Ev(e) == [e |-> e]
LogLine(level, op, result, id, detail) ==
    [e |-> "log", level |-> level, op |-> op, result |-> result,
     user |-> "username", id |-> id, detail |-> detail]

(* ---- Serializer / Paginator ------------------------------------------- *)
Ok(v, offset) == [ok |-> TRUE, v |-> v, exc |-> "", offset |-> offset]
Err(exc, offset) == [ok |-> FALSE, v |-> PyNone, exc |-> exc, offset |-> offset]

\* queryset.values(*serialize_fields) / queryset.values() for one record
values(c, d, id) ==
    LET fields == IF c.serialize_fields # {} THEN c.serialize_fields ELSE AllFields
    IN  [f \in fields |-> IF f = "id" THEN id ELSE d[id]]

\* int(self.request.GET.get(self.page_param_name, 1))
page_number(r) == IF r.GET_p.has THEN PyInt(r.GET_p.v) ELSE [ok |-> TRUE, n |-> 1]

\* PageOffset with the page number taken as zero-based
PageOffset_zero_based(page, page_size) == IF page.ok THEN page.n * page_size ELSE 0

\* the page offset: (page_number - 1) * page_size, 0 on ValueError
PageOffset(page, page_size) == IF page.ok THEN (page.n - 1) * page_size ELSE 0

\* queryset[offset:offset+page_size]; a QuerySet refuses a negative index
Window(seq, offset, page_size) ==
    IF offset < 0 \/ offset + page_size < 0
    THEN Err("AssertionError", Present(offset))
    ELSE Ok(Slice(seq, offset, offset + page_size), Present(offset))

\* the pagination options, when they are enabled
Paginate(c, r, seq) ==
    IF c.page_size.has
    THEN Window(seq, PageOffset(page_number(r), c.page_size.v), c.page_size.v)
    ELSE Ok(seq, Absent(0))

\* list(values) of the page, unless slicing raised
ListOf(page) == IF page.ok THEN Ok(PyList(page.v), page.offset) ELSE page

Model_serialize_qs(c, d, r, qs, single_object) ==
    LET vals == [i \in 1..Len(qs) |-> values(c, d, qs[i])]
    IN  IF r.kwargs.has_id \/ single_object
        THEN Ok(IF Len(vals) > 0 THEN PyDict(vals[1]) ELSE PyDict(EmptyDict),
                Absent(0))
        ELSE ListOf(Paginate(c, r, vals))

serialize_item(c, d, id) ==
    LET item_dict == AllFields
        kept == IF c.serialize_fields # {}
                THEN {k \in item_dict : k \in c.serialize_fields}
                ELSE item_dict
    IN  [f \in kept \cup {"id"} |-> IF f = "id" THEN id ELSE d[id]]

\* [ self.serialize_item(i) for i in paginated_queryset ]
ItemsOf(c, d, page) ==
    IF page.ok
    THEN Ok(PyList([i \in 1..Len(page.v) |-> serialize_item(c, d, page.v[i])]),
            page.offset)
    ELSE page

Custom_serialize_qs(c, d, r, qs, single_object) ==
    IF single_object \/ r.kwargs.has_id
    THEN IF Len(qs) > 0
         THEN Ok(PyDict(serialize_item(c, d, qs[1])), Absent(0))
         ELSE Err("IndexError", Absent(0))
    ELSE ItemsOf(c, d, Paginate(c, r, qs))

\* self.serialize_qs: the method of the concrete view class
serialize_qs(c, d, r, qs, single_object) ==
    IF c.view = "CustomModelAPIView"
    THEN Custom_serialize_qs(c, d, r, qs, single_object)
    ELSE Model_serialize_qs(c, d, r, qs, single_object)

(* ---- Collection operations (ModelAPIView) ----------------------------- *)
NoOffset == Absent(0)
\* what an operation did: its return value (or the exception it raised), the
\* data source after it, and the collaborator calls it made, in order
Op(op, raised, exc, ret, d, n, events, offset) ==
    [op |-> op, raised |-> raised, exc |-> exc, ret |-> ret, db |-> d, nextId |-> n,
     events |-> events, offset |-> offset]

\* user_has_perm(request, obj, action): the Authorizer's answer
user_has_perm(r, action) == r.allow
Perm(action) == [e |-> "perm", action |-> action]

\* the (success, data) pair create and update return
Success(payload) == [success |-> TRUE, data |-> payload,
                     status |-> Absent(0), errors |-> Absent(PyNone)]
Failure(status, errors) == [success |-> FALSE, data |-> PyNone,
                            status |-> status, errors |-> errors]

\* the return value of an operation whose serializer call s finished or raised
Serialized(op, s, wrap, d, n, events) ==
    IF s.ok THEN Op(op, FALSE, "", IF wrap THEN Success(s.v) ELSE s.v, d, n, events, s.offset)
    ELSE Op(op, TRUE, s.exc, PyNone, d, n, events, s.offset)

read_single_item(c, d, n, r, id) ==
    LET qs == filter(d, id)
    IN  IF Len(qs) # 1
        THEN Op("read_single_item", FALSE, "", PyNone, d, n, <<Ev("filter")>>, NoOffset)
        ELSE IF ~user_has_perm(r, "read_single_item")
        THEN Op("read_single_item", FALSE, "", PyNone, d, n,
                <<Ev("filter"), Perm("read_single_item")>>, NoOffset)
        ELSE Serialized("read_single_item", serialize_qs(c, d, r, qs, FALSE), FALSE, d, n,
                        <<Ev("filter"), Perm("read_single_item"), Ev("serialize")>>)

read_collection(c, d, n, r) ==
    LET qs == base_queryset(d)
    IN  IF Len(qs) = 0
        THEN \* qs[0] on an empty queryset
             Op("read_collection", TRUE, "IndexError", PyNone, d, n, <<Ev("filter")>>, NoOffset)
        ELSE IF ~user_has_perm(r, "read_collection")
        THEN Op("read_collection", FALSE, "", PyNone, d, n,
                <<Ev("filter"), Perm("read_collection")>>, NoOffset)
        ELSE Serialized("read_collection", serialize_qs(c, d, r, qs, FALSE), FALSE, d, n,
                        <<Ev("filter"), Perm("read_collection"), Ev("serialize")>>)

\* read that never looks at the identifier
read_ignores_id(c, d, n, r) == read_collection(c, d, n, r)

\* BackboneAPIView.read: `if id:` on the identifier taken from the url kwargs
read(c, d, n, r) ==
    IF r.kwargs.has_id THEN read_single_item(c, d, n, r, r.kwargs.id)
    ELSE read_collection(c, d, n, r)

\* create that consults the Authorizer before it looks for the add form
create_perm_first(c, d, n, r, data, files) ==
    IF ~user_has_perm(r, "create")
    THEN Op("create", FALSE, "", Failure(Present(403), Absent(PyNone)), d, n, <<Perm("create")>>, NoOffset)
    ELSE IF ~c.add_form_class
    THEN Op("create", FALSE, "", Failure(Present(501), Absent(PyNone)), d, n, <<Perm("create")>>, NoOffset)
    ELSE IF is_valid(data)
    THEN LET saved == [d EXCEPT ![n] = data]
             before == <<Perm("create"), Ev("form"), Ev("is_valid"), Ev("save"),
                         LogLine("info", "CREATE", "SUCCESS", n,
                                 [data |-> data, files |-> files]),
                         Ev("filter"), Ev("serialize")>>
         IN  Serialized("create", serialize_qs(c, saved, r, filter(saved, n), TRUE), TRUE,
                        saved, n + 1, before)
    ELSE Op("create", FALSE, "", Failure(Present(400), Present(form_errors)), d, n,
            <<Perm("create"), Ev("form"), Ev("is_valid"),
              LogLine("warning", "CREATE", "ERROR", 0,
                      [data |-> data, files |-> files, errors |-> form_errors])>>,
            NoOffset)

create(c, d, n, r, data, files) ==
    IF ~c.add_form_class
    THEN Op("create", FALSE, "", Failure(Present(501), Absent(PyNone)), d, n, <<>>, NoOffset)
    ELSE IF ~user_has_perm(r, "create")
    THEN Op("create", FALSE, "", Failure(Present(403), Absent(PyNone)), d, n, <<Perm("create")>>, NoOffset)
    ELSE IF is_valid(data)
    THEN LET saved == [d EXCEPT ![n] = data]
             before == <<Perm("create"), Ev("form"), Ev("is_valid"), Ev("save"),
                         LogLine("info", "CREATE", "SUCCESS", n,
                                 [data |-> data, files |-> files]),
                         Ev("filter"), Ev("serialize")>>
         IN  Serialized("create", serialize_qs(c, saved, r, filter(saved, n), TRUE), TRUE,
                        saved, n + 1, before)
    ELSE Op("create", FALSE, "", Failure(Present(400), Present(form_errors)), d, n,
            <<Perm("create"), Ev("form"), Ev("is_valid"),
              LogLine("warning", "CREATE", "ERROR", 0,
                      [data |-> data, files |-> files, errors |-> form_errors])>>,
            NoOffset)

\* update that answers a denied update with 403, as create does
update_denied_403(c, d, n, r, id, data, files) ==
    IF ~c.edit_form_class
    THEN Op("update", FALSE, "", Failure(Present(501), Absent(PyNone)), d, n, <<>>, NoOffset)
    ELSE LET qs == filter(d, id)
         IN  IF Len(qs) # 1
             THEN Op("update", FALSE, "", Failure(Present(404), Absent(PyNone)), d, n,
                     <<Ev("filter")>>, NoOffset)
             ELSE IF ~user_has_perm(r, "update")
             THEN Op("update", FALSE, "", Failure(Present(403), Absent(PyNone)), d, n,
                     <<Ev("filter"), Perm("update")>>, NoOffset)
             ELSE LET data_diff == get_data_diff(d, qs, data)
                      pre == <<Ev("filter"), Perm("update"), Ev("form"), Ev("diff"),
                               Ev("is_valid")>>
                  IN  IF is_valid(data)
                      THEN LET saved == [d EXCEPT ![id] = data]
                           IN  Serialized("update", serialize_qs(c, saved, r, filter(saved, id), TRUE), TRUE,
                                 saved, n,
                                 pre \o <<LogLine("info", "UPDATE", "SUCCESS", id,
                                                  [updated_data |-> data_diff,
                                                   files |-> files]),
                                          Ev("save"), Ev("filter"), Ev("serialize")>>)
                      ELSE Op("update", FALSE, "", Failure(Present(400), Present(form_errors)),
                              d, n,
                              pre \o <<LogLine("info", "UPDATE", "ERROR", id,
                                               [updated_data |-> data_diff,
                                                files |-> files])>>,
                              NoOffset)

\* update that computes the diff from the record as form.save() left it
update_diff_after_save(c, d, n, r, id, data, files) ==
    IF ~c.edit_form_class
    THEN Op("update", FALSE, "", Failure(Present(501), Absent(PyNone)), d, n, <<>>, NoOffset)
    ELSE LET qs == filter(d, id)
         IN  IF Len(qs) # 1
             THEN Op("update", FALSE, "", Failure(Present(404), Absent(PyNone)), d, n,
                     <<Ev("filter")>>, NoOffset)
             ELSE IF ~user_has_perm(r, "update")
             THEN Op("update", FALSE, "", Failure(Present(404), Absent(PyNone)), d, n,
                     <<Ev("filter"), Perm("update")>>, NoOffset)
             ELSE LET data_diff == get_data_diff(IF is_valid(data) THEN [d EXCEPT ![id] = data]
                                                 ELSE d, qs, data)
                      pre == <<Ev("filter"), Perm("update"), Ev("form"), Ev("diff"),
                               Ev("is_valid")>>
                  IN  IF is_valid(data)
                      THEN LET saved == [d EXCEPT ![id] = data]
                           IN  Serialized("update", serialize_qs(c, saved, r, filter(saved, id), TRUE), TRUE,
                                 saved, n,
                                 pre \o <<LogLine("info", "UPDATE", "SUCCESS", id,
                                                  [updated_data |-> data_diff,
                                                   files |-> files]),
                                          Ev("save"), Ev("filter"), Ev("serialize")>>)
                      ELSE Op("update", FALSE, "", Failure(Present(400), Present(form_errors)),
                              d, n,
                              pre \o <<LogLine("info", "UPDATE", "ERROR", id,
                                               [updated_data |-> data_diff,
                                                files |-> files])>>,
                              NoOffset)

update(c, d, n, r, id, data, files) ==
    IF ~c.edit_form_class
    THEN Op("update", FALSE, "", Failure(Present(501), Absent(PyNone)), d, n, <<>>, NoOffset)
    ELSE LET qs == filter(d, id)
         IN  IF Len(qs) # 1
             THEN Op("update", FALSE, "", Failure(Present(404), Absent(PyNone)), d, n,
                     <<Ev("filter")>>, NoOffset)
             ELSE IF ~user_has_perm(r, "update")
             THEN Op("update", FALSE, "", Failure(Present(404), Absent(PyNone)), d, n,
                     <<Ev("filter"), Perm("update")>>, NoOffset)
             ELSE LET data_diff == get_data_diff(d, qs, data)
                      pre == <<Ev("filter"), Perm("update"), Ev("form"), Ev("diff"),
                               Ev("is_valid")>>
                  IN  IF is_valid(data)
                      THEN LET saved == [d EXCEPT ![id] = data]
                           IN  Serialized("update", serialize_qs(c, saved, r, filter(saved, id), TRUE), TRUE,
                                 saved, n,
                                 pre \o <<LogLine("info", "UPDATE", "SUCCESS", id,
                                                  [updated_data |-> data_diff,
                                                   files |-> files]),
                                          Ev("save"), Ev("filter"), Ev("serialize")>>)
                      ELSE Op("update", FALSE, "", Failure(Present(400), Present(form_errors)),
                              d, n,
                              pre \o <<LogLine("info", "UPDATE", "ERROR", id,
                                               [updated_data |-> data_diff,
                                                files |-> files])>>,
                              NoOffset)

\* delete that removes the record before it asks the Authorizer
delete_before_perm(c, d, n, r, id) ==
    LET qs == filter(d, id)
    IN  IF Len(qs) > 0
        THEN IF ~user_has_perm(r, "delete")
             THEN Op("delete", FALSE, "", FALSE, [d EXCEPT ![id] = NoRecord], n,
                     <<Ev("filter"), Ev("delete"), Perm("delete")>>, NoOffset)
             ELSE Op("delete", FALSE, "", TRUE, [d EXCEPT ![id] = NoRecord], n,
                     <<Ev("filter"), Ev("delete"), Perm("delete"),
                       LogLine("info", "DELETE", "SUCCESS", id, [id |-> id])>>,
                     NoOffset)
        ELSE Op("delete", FALSE, "", FALSE, d, n, <<Ev("filter")>>, NoOffset)

\* delete that writes its log line before it asks the Authorizer
delete_log_first(c, d, n, r, id) ==
    LET qs == filter(d, id)
    IN  IF Len(qs) > 0
        THEN IF ~user_has_perm(r, "delete")
             THEN Op("delete", FALSE, "", FALSE, d, n,
                     <<Ev("filter"), LogLine("info", "DELETE", "SUCCESS", id, [id |-> id]),
                       Perm("delete")>>, NoOffset)
             ELSE Op("delete", FALSE, "", TRUE, [d EXCEPT ![id] = NoRecord], n,
                     <<Ev("filter"), LogLine("info", "DELETE", "SUCCESS", id, [id |-> id]),
                       Perm("delete"), Ev("delete")>>,
                     NoOffset)
        ELSE Op("delete", FALSE, "", FALSE, d, n, <<Ev("filter")>>, NoOffset)

delete(c, d, n, r, id) ==
    LET qs == filter(d, id)
    IN  IF Len(qs) > 0
        THEN IF ~user_has_perm(r, "delete")
             THEN Op("delete", FALSE, "", FALSE, d, n, <<Ev("filter"), Perm("delete")>>, NoOffset)
             ELSE Op("delete", FALSE, "", TRUE, [d EXCEPT ![id] = NoRecord], n,
                     <<Ev("filter"), Perm("delete"),
                       LogLine("info", "DELETE", "SUCCESS", id, [id |-> id]),
                       Ev("delete")>>,
                     NoOffset)
        ELSE Op("delete", FALSE, "", FALSE, d, n, <<Ev("filter")>>, NoOffset)

(* ---- BackboneAPIView: responses, body decoding, handlers --------------- *)
success_response(request_type, data) ==
    LET obj == IF Truthy(data) THEN Encode(data) ELSE Text("")
        mimetype == IF request_type = "form-multipart" THEN "text/plain"
                    ELSE "application/json"
    IN  HttpResponse(obj, 200, mimetype)

\* error_response that wraps nothing and always sends the real status
error_response_unwrapped(request_type, data, status) ==
    LET errors == IF Truthy(data) THEN Encode(PyDict([error |-> data])) ELSE Text("")
    IN  HttpResponse(errors, status, "application/json")

error_response(request_type, data, status) ==
    LET errors == IF Truthy(data) THEN Encode(PyDict([error |-> data])) ELSE Text("")
    IN  IF request_type = "form-multipart"
        THEN HttpResponse(Textarea(status, errors), 200, "text/html")
        ELSE HttpResponse(errors, status, "application/json")

\* get_request_data that decodes every body as JSON, whatever its content type
get_request_data_json_always(r) ==
    LET format == DictGet(r.CONTENT_TYPE, "application/json")
    IN  IF Contains(format, "application/x-www-form-urlencoded")
        THEN [raised |-> ~r.json_ok, request_type |-> "form", data |-> r.name,
              files |-> "None"]
        ELSE IF Contains(format, "multipart/form-data")
        THEN [raised |-> ~r.json_ok, request_type |-> "form-multipart", data |-> r.name,
              files |-> "FILES"]
        ELSE [raised |-> ~r.json_ok, request_type |-> "json", data |-> r.name,
              files |-> "None"]

\* (data, files) and the request_type it leaves on the view, or ValueError
get_request_data(r) ==
    LET format == DictGet(r.CONTENT_TYPE, "application/json")
    IN  IF Contains(format, "application/x-www-form-urlencoded")
        THEN [raised |-> FALSE, request_type |-> "form", data |-> r.name,
              files |-> "None"]
        ELSE IF Contains(format, "multipart/form-data")
        THEN [raised |-> FALSE, request_type |-> "form-multipart", data |-> r.name,
              files |-> "FILES"]
        ELSE [raised |-> ~r.json_ok, request_type |-> "json", data |-> r.name,
              files |-> "None"]

\* what handling one request did: the response (or the exception raised to
\* the caller), the handler dispatch chose, the operation it invoked and what
\* it returned, the data source after it, the collaborator calls and
\* self.request_type
Out(resp, handler, o, request_type) ==
    [resp |-> resp, handler |-> handler, called |-> o.op, ret |-> o.ret,
     db |-> o.db, nextId |-> o.nextId, events |-> o.events, offset |-> o.offset,
     request_type |-> request_type]
\* a handler that ends before it invokes an operation
Untouched(d, n) == Op("none", FALSE, "", PyNone, d, n, <<>>, NoOffset)

\* _get that answers 404 only when read returned None
ReadAnswer_none_only(o) ==
    IF o.raised THEN Out(Raise(o.exc), "_get", o, "json")
    ELSE IF o.ret # PyNone
    THEN Out(success_response("json", o.ret), "_get", o, "json")
    ELSE Out(error_response("json", PyNone, 404), "_get", o, "json")

\* the response of _get to what read returned
ReadAnswer(o) ==
    IF o.raised THEN Out(Raise(o.exc), "_get", o, "json")
    ELSE IF Truthy(o.ret)
    THEN Out(success_response("json", o.ret), "_get", o, "json")
    ELSE Out(error_response("json", PyNone, 404), "_get", o, "json")

_get(c, d, n, r) == ReadAnswer(read(c, d, n, r))

\* the tail shared by _post and _put: (success, data) to a response
Answer(handler, o, request_type) ==
    IF o.raised THEN Out(Raise(o.exc), handler, o, request_type)
    ELSE IF o.ret.success
    THEN Out(success_response(request_type, o.ret.data), handler, o, request_type)
    ELSE Out(error_response(request_type, DictGet(o.ret.errors, PyDict(EmptyDict)),
                            DictGet(o.ret.status, 400)),
             handler, o, request_type)

_post(c, d, n, r) ==
    LET rd == get_request_data(r)
    IN  IF rd.raised
        THEN Out(error_response(rd.request_type, PyNone, 400), "_post",
                 Untouched(d, n), rd.request_type)
        ELSE Answer("_post", create(c, d, n, r, rd.data, rd.files),
                    rd.request_type)

\* _put that decodes the body before it looks for the identifier
_put_decode_first(c, d, n, r) ==
    LET rd == get_request_data(r)
    IN  IF rd.raised
        THEN Out(HttpResponse(Text("Invalid POST DATA"), 400, DefaultMimetype),
                 "_put", Untouched(d, n), rd.request_type)
        ELSE IF ~r.kwargs.has_id
        THEN Out(Raise("Http404"), "_put", Untouched(d, n), "json")
        ELSE Answer("_put", update(c, d, n, r, r.kwargs.id, rd.data, rd.files),
                    rd.request_type)

_put(c, d, n, r) ==
    IF ~r.kwargs.has_id
    THEN \* kwargs['id'] raises KeyError before the body is decoded
         Out(Raise("Http404"), "_put", Untouched(d, n), "json")
    ELSE LET rd == get_request_data(r)
         IN  IF rd.raised
             THEN Out(HttpResponse(Text("Invalid POST DATA"), 400, DefaultMimetype),
                      "_put", Untouched(d, n), rd.request_type)
             ELSE Answer("_put",
                         update(c, d, n, r, r.kwargs.id, rd.data, rd.files),
                         rd.request_type)

\* the response of _delete to what delete returned
DeleteAnswer(o) ==
    IF o.ret THEN Out(success_response("json", PyNone), "_delete", o, "json")
    ELSE Out(error_response("json", PyNone, 404), "_delete", o, "json")

\* _delete without the check for a missing identifier
_delete_no_check(c, d, n, r) == DeleteAnswer(delete(c, d, n, r, r.kwargs.id))

_delete(c, d, n, r) ==
    IF ~r.kwargs.has_id
    THEN Out(HttpResponse(Text("DELETE is not supported for collections"), 405,
                          DefaultMimetype),
             "_delete", Untouched(d, n), "json")
    ELSE DeleteAnswer(delete(c, d, n, r, r.kwargs.id))

\* django View.http_method_not_allowed: HttpResponseNotAllowed
http_method_not_allowed(c, d, n, r) ==
    Out(HttpResponse(Text(""), 405, DefaultMimetype), "http_method_not_allowed",
        Untouched(d, n), "json")

(* ---- dispatch ---------------------------------------------------------- *)
\* django View.http_method_names
http_method_names == {"get", "post", "put", "delete", "head", "options", "trace"}

\* request_method that takes the _method field as written
request_method_no_lower(r) ==
    LET m == Lower(r.method)
    IN  IF m = "post" THEN DictGet(r.POST_method, "post") ELSE m

\* the effective verb: request.method.lower(), replaced by the lower-cased
\* _method field of request.POST when the transport method is POST
request_method(r) ==
    LET m == Lower(r.method)
    IN  IF m = "post" THEN Lower(DictGet(r.POST_method, "post")) ELSE m

\* getattr(self, "_" + request_method, self.http_method_not_allowed)
handler_name(r) ==
    LET m == request_method(r)
    IN  IF m \in http_method_names /\ m \in {"get", "post", "put", "delete"}
        THEN m ELSE "http_method_not_allowed"

dispatch(c, d, n, r) ==
    LET h == handler_name(r)
    IN  CASE h = "get"    -> _get(c, d, n, r)
          [] h = "post"   -> _post(c, d, n, r)
          [] h = "put"    -> _put(c, d, n, r)
          [] h = "delete" -> _delete(c, d, n, r)
          [] OTHER        -> http_method_not_allowed(c, d, n, r)

(* ---- state ------------------------------------------------------------- *)
VARIABLES
    cfg,     \* the view class's configuration (class attributes)
    db,      \* the data source: identifier -> value of the record, or NoRecord
    nextId,  \* the identifier the data source assigns to the next new record
    pc,      \* "idle": waiting for a request; "done": a request was handled
    req,     \* the request being answered
    pre,     \* the data source as the request found it
    out      \* what handling req did

vars == <<cfg, db, nextId, pc, req, pre, out>>

NoReq == [method |-> "", POST_method |-> Absent(""), kwargs |-> NoId,
          CONTENT_TYPE |-> Absent(""), json_ok |-> FALSE, name |-> "",
          GET_p |-> Absent(<<>>), allow |-> FALSE]
NoOut == [resp |-> Raise(""), handler |-> "", called |-> "none", ret |-> PyNone,
          events |-> <<>>,
          offset |-> NoOffset, request_type |-> "json"]

Configs ==
    [view : Views, serialize_fields : FieldSets,
     page_size : {NoPageSize} \cup {Present(k) : k \in 1..MaxPageSize},
     add_form_class : BOOLEAN, edit_form_class : BOOLEAN]

\* the stored part of an outcome (the data source lives in db and nextId)
Stored(o) == [resp |-> o.resp, handler |-> o.handler, called |-> o.called,
              ret |-> o.ret, events |-> o.events, offset |-> o.offset,
              request_type |-> o.request_type]

\* the handler returns: its writes are in the data source, its answer is out
Return(o) ==
    /\ o.nextId <= MaxId + 1
    /\ db' = o.db
    /\ nextId' = o.nextId
    /\ out' = Stored(o)

\* one request is dispatched and answered
Handle(r) ==
    /\ pc = "idle"
    /\ Return(dispatch(cfg, db, nextId, r))
    /\ pre' = [db |-> db, nextId |-> nextId]
    /\ req' = r
    /\ pc' = "done"
    /\ UNCHANGED cfg


\* the requests that can arrive: none while one is being answered
Arriving(requests) == IF pc = "idle" THEN requests ELSE {}

Reply ==
    /\ pc = "done"
    /\ pc' = "idle"
    /\ req' = NoReq
    /\ out' = NoOut
    /\ pre' = [db |-> db, nextId |-> nextId]
    /\ UNCHANGED <<cfg, db, nextId>>

Get == \E r \in Arriving(Requests) : handler_name(r) = "get" /\ Handle(r)
Post == \E r \in Arriving(Requests) : handler_name(r) = "post" /\ Handle(r)
Put == \E r \in Arriving(Requests) : handler_name(r) = "put" /\ Handle(r)
Delete == \E r \in Arriving(Requests) : handler_name(r) = "delete" /\ Handle(r)
MethodNotAllowed ==
    \E r \in Arriving(Requests) : handler_name(r) = "http_method_not_allowed" /\ Handle(r)

\* a data source that has assigned the identifiers below n
DataSources(n) ==
    {d \in [Ids -> Vals \cup {NoRecord}] : \A i \in Ids : i >= n => d[i] = NoRecord}

Init ==
    /\ cfg \in {c \in Configs : ~c.page_size.has}
    /\ nextId = 1
    /\ db \in DataSources(nextId)
    /\ pc = "idle"
    /\ req = NoReq
    /\ out = NoOut
    /\ pre = [db |-> db, nextId |-> nextId]

Next == Get \/ Post \/ Put \/ Delete \/ MethodNotAllowed \/ Reply

Spec == Init /\ [][Next]_vars

(* ---- collection reads with pagination ---------------------------------- *)
GetPage == \E r \in Arriving(PageRequests) : Handle(r)

InitPage ==
    /\ cfg \in {c \in Configs : c.add_form_class /\ c.edit_form_class}
    /\ nextId \in 1..(MaxId + 1)
    /\ db \in DataSources(nextId)
    /\ pc = "idle"
    /\ req = NoReq
    /\ out = NoOut
    /\ pre = [db |-> db, nextId |-> nextId]

NextPage == GetPage \/ Reply

SpecPage == InitPage /\ [][NextPage]_vars

(* ---- a write and its re-fetch, with other requests in between ---------- *)
\* create and update write with form.save() and then read the record back
\* with base_queryset.filter(id=...): two calls on the data source, with no
\* transaction opened around them, so the requests other workers handle can
\* reach the data source between the two.  pc = "saved" is the request
\* between its form.save() and its re-fetch.

\* the requests that are followed through their write and re-fetch
WriteRequests ==
    {Request(verb, k, <<Present("application/json"), TRUE, v>>, Absent(<<>>), a) :
        verb \in {<<"POST", Absent("")>>, <<"PUT", Absent("")>>},
        k \in Kwargs, v \in Vals \cup {""}, a \in BOOLEAN}
\* the writes of the other workers
OtherUpdates ==
    {Request(<<"PUT", Absent("")>>, WithId(i), <<Present("application/json"), TRUE, v>>,
             Absent(<<>>), TRUE) : i \in Ids, v \in Vals}
OtherDeletes ==
    {Request(<<"DELETE", Absent("")>>, WithId(i), <<Absent(""), TRUE, "a">>,
             Absent(<<>>), TRUE) : i \in Ids}

\* o, the request handled without interruption, gets as far as form.save()
ReachesSave(o) ==
    /\ o.called \in {"create", "update"}
    /\ \E i \in 1..Len(o.events) : o.events[i].e = "save"

\* the identifier of the record the request wrote: new_object.id / item.id
WrittenId(r, n) == IF handler_name(r) = "post" THEN n ELSE r.kwargs.id

\* the request runs up to and including form.save() (and, in create, the
\* SUCCESS line that follows it): the record is in the data source, the
\* re-fetch and the answer are still to come
SaveStep(r, o) ==
    /\ ReachesSave(o)
    /\ o.nextId <= MaxId + 1
    /\ db' = o.db
    /\ nextId' = o.nextId
    /\ out' = [Stored(o) EXCEPT !.resp = Raise(""), !.ret = PyNone,
                                !.events = SubSeq(o.events, 1, Len(o.events) - 2)]
    /\ pre' = [db |-> db, nextId |-> nextId]
    /\ req' = r
    /\ pc' = "saved"
    /\ UNCHANGED cfg
Save == \E r \in Arriving(WriteRequests) : SaveStep(r, dispatch(cfg, db, nextId, r))

\* the request ends before it writes: 404, 403, 400, 501 or Http404
Refuse ==
    \E r \in Arriving(WriteRequests) :
        ~ReachesSave(dispatch(cfg, db, nextId, r)) /\ Handle(r)

\* wrapper_qs = self.base_queryset.filter(id=...); return True,
\* self.serialize_qs(wrapper_qs, single_object=True), and the handler's answer
Refetched(id) ==
    Answer(out.handler,
           Serialized(out.called, serialize_qs(cfg, db, req, filter(db, id), TRUE), TRUE,
                      db, nextId, out.events \o <<Ev("filter"), Ev("serialize")>>),
           out.request_type)
Refetch ==
    /\ pc = "saved"
    /\ out' = Stored(Refetched(WrittenId(req, pre.nextId)))
    /\ pc' = "done"
    /\ UNCHANGED <<cfg, db, nextId, req, pre>>

\* another worker handles a request while this one is between save and re-fetch
OtherStep(o) ==
    /\ db' = o.db
    /\ nextId' = o.nextId
    /\ UNCHANGED <<cfg, pc, req, pre, out>>
\* the requests that can interleave: none unless a write awaits its re-fetch
Interleaving(requests) == IF pc = "saved" THEN requests ELSE {}
OtherUpdate ==
    \E r \in Interleaving(OtherUpdates) :
        handler_name(r) = "put" /\ OtherStep(dispatch(cfg, db, nextId, r))
OtherDelete ==
    \E r \in Interleaving(OtherDeletes) :
        handler_name(r) = "delete" /\ OtherStep(dispatch(cfg, db, nextId, r))

InitConc ==
    /\ cfg \in {c \in Configs : c.add_form_class /\ c.edit_form_class /\ ~c.page_size.has}
    /\ nextId \in 1..MaxId
    /\ db \in DataSources(nextId)
    /\ pc = "idle"
    /\ req = NoReq
    /\ out = NoOut
    /\ pre = [db |-> db, nextId |-> nextId]

NextConc == Save \/ Refuse \/ Refetch \/ OtherUpdate \/ OtherDelete \/ Reply

SpecConc == InitConc /\ [][NextConc]_vars

(* ======================================================================== *)
(* Properties                                                               *)
(* ======================================================================== *)
\* the verb a request asks for, read off the request itself
Overridden(r, vs) == r.method = "POST" /\ r.POST_method.has /\ r.POST_method.v \in vs
AsksGet(r) == r.method = "GET" \/ Overridden(r, {"GET"})
AsksPost(r) == r.method = "POST" /\ ~r.POST_method.has
AsksPut(r) == r.method = "PUT" \/ Overridden(r, {"PUT", "put"})
AsksDelete(r) == r.method = "DELETE" \/ Overridden(r, {"Delete"})
AsksOther(r) == ~(AsksGet(r) \/ AsksPost(r) \/ AsksPut(r) \/ AsksDelete(r))
IsMultipart(r) == r.CONTENT_TYPE.has /\ r.CONTENT_TYPE.v = "multipart/form-data; boundary=x"
\* the body is one the handler can decode
BodyDecodes(r) ==
    r.json_ok \/ (r.CONTENT_TYPE.has /\ r.CONTENT_TYPE.v # "application/json")
Answered == pc = "done" /\ out.resp.kind = "response"
\* the status the handler reports: inside the fragment when it is wrapped
RealStatus(resp) == IF resp.body.k = "textarea" THEN resp.body.status ELSE resp.status
Consulted == \E i \in 1..Len(out.events) : out.events[i].e = "perm"

\* C1: the effective verb and the presence of an identifier select the
\* outcome: GET with identifier -> read-one, GET without -> read-many, POST ->
\* create (identifier or not), PUT with identifier -> update, DELETE with
\* identifier -> delete (create and update are invoked once the body is
\* decoded), any other verb -> 405 with no operation invoked.
C1_DispatchTable ==
    pc = "done" =>
        /\ (AsksGet(req) /\ req.kwargs.has_id) =>
              (out.handler = "_get" /\ out.called = "read_single_item")
        /\ (AsksGet(req) /\ ~req.kwargs.has_id) =>
              (out.handler = "_get" /\ out.called = "read_collection")
        /\ AsksPost(req) =>
              (out.handler = "_post" /\ out.called = IF BodyDecodes(req) THEN "create" ELSE "none")
        /\ (AsksPut(req) /\ req.kwargs.has_id) =>
              (out.handler = "_put" /\ out.called = IF BodyDecodes(req) THEN "update" ELSE "none")
        /\ (AsksDelete(req) /\ req.kwargs.has_id) =>
              (out.handler = "_delete" /\ out.called = "delete")
        /\ AsksOther(req) =>
              /\ out.resp.kind = "response" /\ out.resp.status = 405
              /\ out.called = "none" /\ out.events = <<>>
              /\ db = pre.db

\* a POST with an identifier in the path created a record
C1_Witness ==
    /\ pc = "done" /\ AsksPost(req) /\ req.kwargs.has_id
    /\ out.called = "create" /\ out.resp.kind = "response" /\ out.resp.status = 200
    /\ db # pre.db

\* C2 (as claimed): a PUT without an identifier is answered with status 405
\* and update is not invoked.
C2_PutWithoutIdIs405 ==
    (pc = "done" /\ AsksPut(req) /\ ~req.kwargs.has_id) =>
        /\ out.resp.kind = "response" /\ out.resp.status = 405
        /\ out.called # "update"

\* C2 (amended): a PUT without an identifier, native or overridden, ends with
\* Http404 raised by the handler, for every body and content type; the body is
\* not decoded, update is not invoked and the data source is untouched.
C2_PutWithoutIdRaises404 ==
    (pc = "done" /\ AsksPut(req) /\ ~req.kwargs.has_id) =>
        /\ out.resp = Raise("Http404")
        /\ out.called = "none" /\ out.events = <<>>
        /\ db = pre.db

\* an overridden PUT without identifier and with an undecodable body
C2_Witness ==
    /\ pc = "done" /\ Overridden(req, {"PUT", "put"}) /\ ~req.kwargs.has_id
    /\ ~BodyDecodes(req)
    /\ out.resp = Raise("Http404")

\* the native request an overridden POST stands for
NativeMethod(v) ==
    CASE v \in {"PUT", "put"} -> "PUT"
      [] v = "Delete"         -> "DELETE"
      [] v = "GET"            -> "GET"
      [] OTHER                -> "PATCH"
\* handling r from the state req was handled in gives what req gave
Same(o) == Stored(o) = out /\ o.db = db /\ o.nextId = nextId
SameOutcome(r) == Same(dispatch(cfg, pre.db, pre.nextId, r))

\* C3: a POST whose POST fields carry _method=V has the handler, response and
\* data-source effect of the native request with method lower(V) and the same
\* identifier, body and content type; without _method a POST stays a create;
\* _method is ignored when the transport method is not POST.
C3_OverrideEquivalence ==
    pc = "done" =>
        /\ (req.method = "POST" /\ req.POST_method.has) =>
              SameOutcome([req EXCEPT !.method = NativeMethod(req.POST_method.v),
                                      !.POST_method = Absent("")])
        /\ (req.method = "POST" /\ ~req.POST_method.has) => out.handler = "_post"
        /\ (req.method # "POST" /\ req.POST_method.has) =>
              SameOutcome([req EXCEPT !.POST_method = Absent("")])

\* a multipart POST with _method=put updated a record
C3_Witness ==
    /\ pc = "done" /\ req.method = "POST" /\ req.POST_method = Present("put")
    /\ IsMultipart(req)
    /\ out.called = "update" /\ out.resp.kind = "response" /\ out.resp.status = 200
    /\ db # pre.db

\* C4: a DELETE without an identifier is answered 405 with the body 'DELETE
\* is not supported for collections'; the data source is neither queried nor
\* modified, the Authorizer is not consulted and nothing is logged.
C4_DeleteCollection ==
    (pc = "done" /\ AsksDelete(req) /\ ~req.kwargs.has_id) =>
        /\ out.resp.kind = "response" /\ out.resp.status = 405
        /\ out.resp.body = Text("DELETE is not supported for collections")
        /\ out.events = <<>> /\ out.called = "none"
        /\ db = pre.db

\* a DELETE on a collection that holds records
C4_Witness ==
    /\ pc = "done" /\ AsksDelete(req) /\ ~req.kwargs.has_id
    /\ \E i \in Ids : pre.db[i] # NoRecord
    /\ out.resp.kind = "response" /\ out.resp.status = 405

\* C5: for read-one, update and delete, the response to a request the
\* Authorizer denies on an existing record is the response the same request
\* gets when no record has that identifier, and its status is 404; a denied
\* create is the one case told apart, with status 403.
C5_NoExistenceLeak ==
    (Answered /\ Consulted /\ ~req.allow) =>
        /\ out.called = "create" => RealStatus(out.resp) = 403
        /\ out.called \in {"read_single_item", "update", "delete"} =>
              /\ pre.db[req.kwargs.id] # NoRecord
              /\ RealStatus(out.resp) = 404
              /\ out.resp = dispatch(cfg, [pre.db EXCEPT ![req.kwargs.id] = NoRecord],
                                     pre.nextId, req).resp
              /\ db = pre.db

\* an update of an existing record was denied
C5_Witness ==
    /\ Answered /\ Consulted /\ ~req.allow /\ out.called = "update"
    /\ pre.db[req.kwargs.id] # NoRecord
    /\ RealStatus(out.resp) = 404

\* the JSON text of an error payload, "" when there is none
ErrorText(errors) ==
    IF errors.has THEN Encode(PyDict([error |-> errors.v])) ELSE Text("")

\* C6 (as claimed): for a multipart request the success payload and the error
\* payload of create and update are both wrapped in the textarea fragment,
\* status 200, text/html; for json and url-encoded requests the payload is
\* unwrapped JSON.
C6_MultipartAlwaysWrapped ==
    (Answered /\ out.called \in {"create", "update"}) =>
        IF IsMultipart(req)
        THEN /\ out.resp.status = 200 /\ out.resp.mimetype = "text/html"
             /\ out.resp.body.k = "textarea"
        ELSE /\ out.resp.mimetype = "application/json"
             /\ out.resp.body.k # "textarea"

\* C6 (amended): of the answers of create and update to a multipart request
\* only the error payload is wrapped in <textarea status='STATUS'>PAYLOAD
\* </textarea> with transport status 200 and media type text/html, the real
\* status in the status attribute; the success payload is unwrapped JSON with
\* status 200 and media type text/plain.  For json and url-encoded bodies the
\* payload is unwrapped JSON, application/json, with the real status.  Reads
\* and deletes never decode the body: they answer unwrapped, application/json,
\* with the real status, whatever the content type.
C6_ResponseShaping ==
    (Answered /\ out.called # "none") =>
        IF out.called \in {"create", "update"}
        THEN IF out.ret.success
             THEN /\ out.resp.status = 200
                  /\ out.resp.body = Encode(out.ret.data)
                  /\ out.resp.mimetype =
                        IF IsMultipart(req) THEN "text/plain" ELSE "application/json"
             ELSE IF IsMultipart(req)
             THEN /\ out.resp.status = 200 /\ out.resp.mimetype = "text/html"
                  /\ out.resp.body = Textarea(out.ret.status.v, ErrorText(out.ret.errors))
             ELSE /\ out.resp.status = out.ret.status.v
                  /\ out.resp.status \in {400, 403, 404, 501}
                  /\ out.resp.mimetype = "application/json"
                  /\ out.resp.body = ErrorText(out.ret.errors)
        ELSE /\ out.resp.mimetype = "application/json"
             /\ out.resp.body.k # "textarea"
             /\ out.resp.status \in {200, 404}

\* a multipart create failed validation: status 400 inside the fragment
C6_Witness ==
    /\ Answered /\ IsMultipart(req) /\ out.called = "create"
    /\ out.resp.status = 200 /\ out.resp.mimetype = "text/html"
    /\ out.resp.body = Textarea(400, Encode(PyDict([error |-> form_errors])))

\* C7: every request ends in an HTTP response produced by the handler or the
\* dispatcher; no handler ends by raising to its caller.
C7_AlwaysAnswered == pc = "done" => out.resp.kind = "response"

\* the records a response serializes
SerializedRecords ==
    IF out.called \in {"read_single_item", "read_collection"}
    THEN CASE out.ret.t = "list" -> {out.ret.v[i] : i \in 1..Len(out.ret.v)}
           [] out.ret.t = "dict" -> {out.ret.v} \ {EmptyDict}
           [] OTHER -> {}
    ELSE IF out.called \in {"create", "update"} /\ out.ret.success
    THEN {out.ret.data.v} \ {EmptyDict}
    ELSE {}

\* C8: every serialized record, of both view classes and for every FieldSet,
\* contains the identifier field.
C8_IdAlwaysSerialized ==
    Answered => \A rec \in SerializedRecords : "id" \in DOMAIN rec

\* the page number a request asks for, when its page parameter is an integer
AsksPage(n) == req.GET_p = Present(IntStr(n))
PagedRead ==
    /\ pc = "done" /\ out.called = "read_collection" /\ cfg.page_size.has
    /\ \E i \in 1..Len(out.events) : out.events[i].e = "serialize"

\* C9: the page offset is (max(page_number, 1) - 1) * page_size: page 0 and
\* negative pages are clamped to page 1, the offset is never negative and the
\* answer is that of page 1.
C9_PageClamped ==
    PagedRead =>
        \A n \in (0 - 1)..MaxPage :
            AsksPage(n) =>
                /\ out.offset.has /\ out.offset.v >= 0
                /\ out.offset.v = ((IF n > 1 THEN n ELSE 1) - 1) * cfg.page_size.v
                /\ n < 1 => out.resp = dispatch(cfg, pre.db, pre.nextId,
                                               [req EXCEPT !.GET_p = Present(IntStr(1))]).resp

\* the serialization of one record by the view class
ItemDict(id) ==
    IF cfg.view = "CustomModelAPIView" THEN serialize_item(cfg, db, id)
    ELSE values(cfg, db, id)
\* the records at positions [(p-1)k, pk) of the collection, serialized
ExpectedPage(p) ==
    LET qs == base_queryset(db)
        k == cfg.page_size.v
        lo == (p - 1) * k
        hi == IF p * k < Len(qs) THEN p * k ELSE Len(qs)
        cnt == IF hi > lo THEN hi - lo ELSE 0
    IN  [j \in 1..cnt |-> ItemDict(qs[lo + j])]

\* C10: with page_size k the collection serializer returns for page p >= 1
\* the records at positions [(p-1)k, pk) in collection order; the last page
\* ceil(N/k) holds N mod k records (k when k divides N), a page beyond the
\* last is the empty list, and a non-numeric page parameter gives page 1.
C10_PageWindow ==
    PagedRead =>
        LET N == Len(base_queryset(db))
            k == cfg.page_size.v
            last == (N + k - 1) \div k
        IN  /\ \A p \in 1..MaxPage :
                  AsksPage(p) =>
                      /\ out.ret = PyList(ExpectedPage(p))
                      /\ p = last => Len(out.ret.v) = (IF N % k = 0 THEN k ELSE N % k)
                      /\ p > last => out.ret = PyList(<<>>)
            /\ (req.GET_p \in {Absent(<<>>), Present(<<"x">>), Present(<<>>)}) =>
                  out.ret = PyList(ExpectedPage(1))

\* page 2 of three records at page size 2 holds the one remaining record
C10_Witness ==
    /\ PagedRead /\ AsksPage(2) /\ cfg.page_size.v = 2
    /\ Len(base_queryset(db)) = 3
    /\ out.ret.t = "list" /\ Len(out.ret.v) = 1
    /\ out.resp.kind = "response" /\ out.resp.status = 200

\* a collaborator call of that kind was made while the request was handled
Reached(e) == \E i \in 1..Len(out.events) : out.events[i].e = e
\* the log lines the request emitted, in order
LogLines == SelectSeq(out.events, LAMBDA x : x.e = "log")
\* a create or update whose Form refused the data
FailedValidation ==
    /\ Answered /\ out.called \in {"create", "update"}
    /\ Reached("is_valid") /\ ~out.ret.success

\* C11: every create or update that fails validation returns status 400 with
\* the field-keyed errors payload, persists nothing, and emits exactly one
\* failure log line, which carries the actor identity, the attempted input
\* and the field-level errors.
C11_ValidationFailureLogged ==
    FailedValidation =>
        /\ RealStatus(out.resp) = 400
        /\ out.ret.errors = Present(form_errors)
        /\ db = pre.db /\ nextId = pre.nextId /\ ~Reached("save")
        /\ Len(LogLines) = 1
        /\ LogLines[1].result = "ERROR"
        /\ LogLines[1].user = "username"
        /\ \E k \in {"data", "updated_data"} : k \in DOMAIN LogLines[1].detail
        /\ "errors" \in DOMAIN LogLines[1].detail
        /\ LogLines[1].detail.errors = form_errors

\* the request reaches the body decoding of _post or _put
DecodesBody == pc = "done" /\ (AsksPost(req) \/ (AsksPut(req) /\ req.kwargs.has_id))
\* the content type sends the body to the JSON decoder
JsonPath == ~req.CONTENT_TYPE.has \/ req.CONTENT_TYPE.v = "application/json"

\* C12: a POST, or a PUT with an identifier, whose body goes to the JSON
\* decoder and is malformed is answered with status 400: create/update is not
\* invoked, no collaborator (data source, Authorizer, Form, logger) is called
\* and the record set is unchanged.  A url-encoded or multipart body never
\* goes to the JSON decoder: it reaches create/update though it is no JSON.
C12_MalformedBody ==
    DecodesBody =>
        IF JsonPath
        THEN ~req.json_ok =>
                /\ out.resp.kind = "response" /\ out.resp.status = 400
                /\ out.called = "none" /\ out.events = <<>>
                /\ db = pre.db /\ nextId = pre.nextId
        ELSE /\ ~req.json_ok
             /\ out.called = (IF AsksPost(req) THEN "create" ELSE "update")

\* a PUT on an existing record with a malformed JSON body was refused
C12_Witness ==
    /\ DecodesBody /\ AsksPut(req) /\ JsonPath /\ ~req.json_ok
    /\ pre.db[req.kwargs.id] # NoRecord /\ req.allow /\ cfg.edit_form_class
    /\ out.resp.kind = "response" /\ out.resp.status = 400
    /\ out.called = "none"

\* a native GET on one identifier by an actor the Authorizer allows
GetOne(id) ==
    Request(<<"GET", Absent("")>>, WithId(id), <<Absent(""), TRUE, "a">>,
            Absent(<<>>), TRUE)
\* the answer to that GET from the data source as the request left it
ReadBack(id) == dispatch(cfg, db, nextId, GetOne(id)).resp
CreateSucceeded == Answered /\ out.called = "create" /\ out.ret.success

\* C13: after a create that succeeds (status 200) with payload P, P contains
\* the identifier assigned to the new record, and a GET on that identifier
\* with no write in between is answered 200 with a payload equal to P.
C13_CreateReadRoundTrip ==
    CreateSucceeded =>
        /\ out.resp.status = 200 /\ out.resp.body = Encode(out.ret.data)
        /\ "id" \in DOMAIN out.ret.data.v
        /\ out.ret.data.v.id = pre.nextId
        /\ ReadBack(pre.nextId) = HttpResponse(out.resp.body, 200, "application/json")

\* a create or update that wrote its record has returned
WroteAndReturned ==
    pc = "done" /\ out.called \in {"create", "update"} /\ Reached("save")
\* the serialization of the record as the request itself wrote it
OwnPayload(id) ==
    serialize_qs(cfg, [pre.db EXCEPT ![id] = req.name], req, <<id>>, TRUE).v

\* C14: whatever the other workers do, the payload of a successful create or
\* update is the record as that request's own write committed it: it is
\* never another writer's state, an empty mapping or an exception.
C14_ReadYourWrite ==
    WroteAndReturned =>
        /\ out.resp.kind = "response"
        /\ out.resp = success_response(out.request_type,
                                       OwnPayload(WrittenId(req, pre.nextId)))

\* the i-th collaborator call is a SUCCESS log line
SuccessLine(i) == out.events[i].e = "log" /\ out.events[i].result = "SUCCESS"
\* a data-source write was made before the i-th collaborator call
WrittenBefore(i) == \E j \in 1..(i - 1) : out.events[j].e \in {"save", "delete"}

\* C15: in create, update and delete the SUCCESS log line is emitted only
\* after the data-source write it reports (form.save() for create and update,
\* qs.delete() for delete) has been performed.
C15_SuccessLoggedAfterWrite ==
    pc = "done" => \A i \in 1..Len(out.events) : SuccessLine(i) => WrittenBefore(i)

\* the status of the answer when status is the verdict, 200 on success
Verdict(status) ==
    /\ out.resp.kind = "response"
    /\ RealStatus(out.resp) = status
    /\ out.ret.success = (status = 200)

\* C16: the checks of create and update run in a fixed order and the status
\* is that of the first check that fails.  create: 501 without an add form
\* (Authorizer not consulted), else 403 on denial (Form not constructed), else
\* 400 on invalid data, else success.  update: 501 without an edit form (data
\* source not queried), else 404 when no record has the identifier (Authorizer
\* not consulted), else 404 on denial (Form not constructed), else 400 on
\* invalid data, else success.
C16_CheckOrder ==
    /\ (pc = "done" /\ out.called = "create") =>
          IF ~cfg.add_form_class THEN Verdict(501) /\ out.events = <<>>
          ELSE IF ~req.allow THEN Verdict(403) /\ Consulted /\ ~Reached("form")
          ELSE IF ~is_valid(req.name) THEN Verdict(400) /\ ~Reached("save")
          ELSE Verdict(200) /\ Reached("save")
    /\ (pc = "done" /\ out.called = "update") =>
          IF ~cfg.edit_form_class THEN Verdict(501) /\ out.events = <<>>
          ELSE IF pre.db[req.kwargs.id] = NoRecord
          THEN Verdict(404) /\ Reached("filter") /\ ~Consulted
          ELSE IF ~req.allow THEN Verdict(404) /\ Consulted /\ ~Reached("form")
          ELSE IF ~is_valid(req.name) THEN Verdict(400) /\ ~Reached("save")
          ELSE Verdict(200) /\ Reached("save")

\* a create that fails all three checks is answered by the first: 501
C16_Witness ==
    /\ pc = "done" /\ out.called = "create"
    /\ ~cfg.add_form_class /\ ~req.allow /\ ~is_valid(req.name)
    /\ Verdict(501) /\ ~Consulted

\* a collaborator call of kind a was made before one of kind b
Before(a, b) ==
    \E i, j \in 1..Len(out.events) :
        i < j /\ out.events[i].e = a /\ out.events[j].e = b
UpdateValidated == pc = "done" /\ out.called = "update" /\ Reached("is_valid")

\* C17: in update the diff is computed after the authorization check and
\* before validation, from the record as fetched before any write; an update
\* that reaches validation emits exactly one log line, SUCCESS when the data
\* is valid and ERROR when it is not, and the line carries that diff.
C17_DiffBeforeValidation ==
    UpdateValidated =>
        /\ Before("perm", "diff") /\ Before("diff", "is_valid")
        /\ ~Before("save", "diff") /\ ~Before("is_valid", "diff")
        /\ Len(LogLines) = 1
        /\ LogLines[1].op = "UPDATE"
        /\ LogLines[1].result = (IF is_valid(req.name) THEN "SUCCESS" ELSE "ERROR")
        /\ LogLines[1].detail.updated_data =
              get_data_diff(pre.db, <<req.kwargs.id>>, req.name)

\* an update that changed a record logged the old and the new value
C17_Witness ==
    /\ UpdateValidated /\ out.ret.success
    /\ pre.db[req.kwargs.id] = "a" /\ db[req.kwargs.id] = "b"
    /\ Len(LogLines) = 1 /\ LogLines[1].result = "SUCCESS"
    /\ LogLines[1].detail.updated_data = PyDict([name |-> <<"a", "b">>])

\* the request ended as not-found, denied, not implemented or not allowed
EndedRefused ==
    \/ out.resp = Raise("Http404")
    \/ out.resp.kind = "response" /\ RealStatus(out.resp) \in {403, 404, 405, 501}

\* C18: a request that ends as not-found, authorization-denied, 501 or 405
\* emits no log line, and neither does any GET; an update on an identifier
\* no record has is answered 404 and emits no line.
C18_RefusalsNotLogged ==
    pc = "done" =>
        /\ (EndedRefused \/ out.handler = "_get") => LogLines = <<>>
        /\ (out.called = "update" /\ pre.db[req.kwargs.id] = NoRecord
            /\ cfg.edit_form_class) =>
                /\ out.resp.kind = "response" /\ RealStatus(out.resp) = 404
                /\ LogLines = <<>>

\* a delete the Authorizer denied on an existing record left no log line
C18_Witness ==
    /\ pc = "done" /\ out.called = "delete" /\ Consulted /\ ~req.allow
    /\ pre.db[req.kwargs.id] # NoRecord
    /\ out.resp.kind = "response" /\ out.resp.status = 404
    /\ LogLines = <<>>

\* the request was answered with status 200
Succeeded == Answered /\ RealStatus(out.resp) = 200
\* the request was answered with a failure status
Failed == Answered /\ RealStatus(out.resp) \in {400, 403, 404, 405, 501}
DataSourceUntouched == db = pre.db /\ nextId = pre.nextId

\* C19: the records of the data source change only in a create, update or
\* delete that is answered with success; every GET and every request
\* answered 400, 403, 404, 405 or 501 leaves the data source as it found it;
\* a successful delete removes the record with the requested identifier and
\* no other.
C19_Frame ==
    pc = "done" =>
        /\ ~DataSourceUntouched =>
              (Succeeded /\ out.called \in {"create", "update", "delete"})
        /\ (Failed \/ out.handler = "_get") => DataSourceUntouched
        /\ (Succeeded /\ out.called = "delete") =>
              /\ db = [pre.db EXCEPT ![req.kwargs.id] = NoRecord]
              /\ nextId = pre.nextId

\* a delete removed one of several records
C19_Witness ==
    /\ pc = "done" /\ Succeeded /\ out.called = "delete"
    /\ pre.db[req.kwargs.id] # NoRecord /\ db[req.kwargs.id] = NoRecord
    /\ \E i \in Ids \ {req.kwargs.id} : db[i] # NoRecord /\ db[i] = pre.db[i]

\* a GET whose read returned a result
ReadReturned == pc = "done" /\ out.handler = "_get" /\ out.resp.kind = "response"
\* the answer to a GET on an identifier no record has
NotFoundAnswer == dispatch(cfg, db, nextId, GetOne(MaxId + 1)).resp

\* C20: a GET is answered 200, with the result as payload, only when the read
\* result is non-empty; when it is empty (None after not-found or denial, an
\* empty list such as a page beyond the last, an empty mapping) the answer is
\* 404 with an empty body, the answer a GET on a missing record gets.
C20_EmptyReadIs404 ==
    ReadReturned =>
        IF Truthy(out.ret)
        THEN out.resp = HttpResponse(Encode(out.ret), 200, "application/json")
        ELSE /\ out.resp = HttpResponse(Text(""), 404, "application/json")
             /\ out.resp = NotFoundAnswer

\* an allowed read of a page beyond the last was answered 404
C20_Witness ==
    /\ ReadReturned /\ PagedRead /\ req.allow
    /\ Len(base_queryset(db)) > 0
    /\ out.ret = PyList(<<>>)
    /\ out.resp.status = 404 /\ out.resp.body = Text("")

====
